---- MODULE Spec2Model ----
(***************************************************************************)
(* Envelope budgeting dashboard: the income allocation engine of           *)
(* BudgetDashboard (src/src/app/page.tsx), the transaction sources that    *)
(* feed it (DataInput, ManualEntry, GetPaid) and the allocation validator. *)
(*                                                                         *)
(* Currency amounts are JavaScript numbers in the source.  They are        *)
(* modelled as exact rationals [n, d] (d > 0), with [0, 0] standing for    *)
(* NaN, so that a share such as 1500 * (500 / 800) is computed and not     *)
(* assumed.  Rounding of IEEE doubles is outside the model.                *)
(***************************************************************************)
EXTENDS Integers, Sequences, FiniteSets, TLC

\* ------------------------------------------------------------------ bounds
MaxEnvelopes == 2
MaxRules == 3
MaxBatch == 2
MaxClock == 1
MaxLedger == 2

\* ------------------------------------------------------- rational numbers
Abs(x) == IF x < 0 THEN -x ELSE x

RECURSIVE GCD(_, _)
GCD(a, b) == IF b = 0 THEN a ELSE GCD(b, a % b)

NaN == [n |-> 0, d |-> 0]

IsNaN(r) == r.d = 0

\* n / d in lowest terms; a zero divisor with a zero dividend is NaN
Rat(n, d) ==
  IF d = 0 THEN NaN
  ELSE LET g == GCD(Abs(n), Abs(d))
           s == IF d < 0 THEN -1 ELSE 1
       IN  [n |-> (s * n) \div g, d |-> (s * d) \div g]

Num(i) == [n |-> i, d |-> 1]

RatMul(a, b) == IF IsNaN(a) \/ IsNaN(b) THEN NaN ELSE Rat(a.n * b.n, a.d * b.d)

\* JavaScript comparisons: every comparison with NaN is false
RatGt(a, b) == ~IsNaN(a) /\ ~IsNaN(b) /\ a.n * b.d > b.n * a.d

RatLt(a, b) == RatGt(b, a)

RatEq(a, b) == ~IsNaN(a) /\ ~IsNaN(b) /\ a.n * b.d = b.n * a.d

\* Math.min
RatMin(a, b) == IF IsNaN(a) \/ IsNaN(b) THEN NaN ELSE IF RatLt(b, a) THEN b ELSE a

\* -------------------------------------------------------------- data model
Undefined == "undefined"

AccountIds == {"a1", "a2"}

EnvelopeIdAt(i) == IF i = 1 THEN "e1" ELSE IF i = 2 THEN "e2" ELSE "e3"

EnvelopeNameAt(i) == IF i = 1 THEN "Rent" ELSE IF i = 2 THEN "Food" ELSE "Fun"

AllocatedValues == {0, 3, 5}

AllocationKinds == {"percentage", "fixed"}

\* an optional number is <<>> (undefined) or <<v>>
NoNumber == <<>>

VARIABLES
  accounts,        \* useState<Account[]>: the account ids, in list order
  envelopes,       \* useState<Envelope[]>
  transactions,    \* useState<Transaction[]>: the ledger, in insertion order
  setupCompleted,  \* useState(false)
  now,             \* the value Date.now() returns
  randoms,         \* how many values Math.random() has handed out
  call,            \* the last run of handleTransactionsAdded: arguments, branches, result
  editingTransaction,  \* useState<Transaction | null>: <<>> or <<transaction>>
  paid,            \* the last run of GetPaid.handleSubmit: inputs, distribution, result
  op,              \* the last edit or delete of the ledger: the ledger before, the argument
  upload,          \* the last file import: the account selected in the import form
  user,            \* useState<User | null>: the uid signed in, or NoUser
  pending,         \* per uid, the calls of loadUserData that have not returned yet
  firestore,       \* per uid, the document users/<uid>: <<>> or <<data>>
  origin,          \* the uid whose load filled the data in memory, or NoUser
  saved,           \* the last run of saveUserData: the uid written, the origin of the data
  rules,           \* validateIncomeAllocation applied on its own: the envelopes given
  totalAmount,     \*   the total amount given
  validation       \*   the result returned

sessionVars == <<user, pending, firestore, origin, saved>>

appVars ==
  <<accounts, envelopes, transactions, setupCompleted, now, randoms, call,
    editingTransaction, paid, op, upload, user, pending, firestore, origin, saved>>

valVars == <<rules, totalAmount, validation>>

vars == <<accounts, envelopes, transactions, setupCompleted, now, randoms, call,
          editingTransaction, paid, op, upload, user, pending, firestore, origin,
          saved, rules, totalAmount, validation>>

\* ------------------------------------------------------------ the session
Users == {"u1", "u2"}

\* onAuthStateChanged hands over null when nobody is signed in
NoUser == "null"

NoUpload == [selectedAccountId |-> Undefined]

NoSave == [uid |-> NoUser, origin |-> NoUser]

\* UserData, dataService.ts: what is stored for a user
UserData(accs, envs, ledger, done) ==
  [accounts |-> accs, envelopes |-> envs, transactions |-> ledger,
   setupCompleted |-> done]

\* page.tsx:107  user && (accounts.length > 0 || envelopes.length > 0 ||
\* transactions.length > 0 || setupCompleted)
SaveCondition(uid, accs, envs, ledger, done) ==
  uid # NoUser /\ (Len(accs) > 0 \/ Len(envs) > 0 \/ Len(ledger) > 0 \/ done)

JsonNull == "null"

\* JSON.stringify writes NaN as null
JsonNumber(x) == IF IsNaN(x) THEN JsonNull ELSE x

\* dataService.ts:47-55: the document holds the encrypted JSON text of the
\* data, JSON.stringify on the way in and JSON.parse on the way out. Strings,
\* booleans and finite numbers come back as they were and an optional field
\* that is absent stays absent; an amount that is NaN comes back as null.
JsonRoundTrip(data) ==
  [data EXCEPT
     !.transactions =
       [i \in 1..Len(data.transactions) |->
          [data.transactions[i] EXCEPT
             !.amount = JsonNumber(data.transactions[i].amount)]]]

\* dataService.ts:57-69  setDoc(doc(db, 'users', userId), { data: encryptedData, ... })
saveUserData(userId, data) == [firestore EXCEPT ![userId] = <<JsonRoundTrip(data)>>]

\* the save effect, page.tsx:106-117: it runs after every render in which the
\* user or the data changed, with the user and the data of that render
SaveEffect(uid, accs, envs, ledger, done, from) ==
  IF SaveCondition(uid, accs, envs, ledger, done)
    THEN /\ firestore' = saveUserData(uid, UserData(accs, envs, ledger, done))
         /\ saved' = [uid |-> uid, origin |-> from]
    ELSE UNCHANGED <<firestore, saved>>

\* a handler of the dashboard changed the data: the session stays, the effect runs
DataChanged ==
  /\ UNCHANGED <<user, pending, origin>>
  /\ SaveEffect(user, accounts', envelopes', transactions', setupCompleted', origin)

\* --------------------------------------------------- allocation validator
RECURSIVE SumAllocation(_, _)
SumAllocation(envs, kind) ==
  IF envs = <<>> THEN 0
  ELSE (IF Head(envs).incomeAllocationType = kind
          THEN Head(envs).incomeAllocation[1] ELSE 0)
       + SumAllocation(Tail(envs), kind)

HasKind(envs, kind) == \E i \in 1..Len(envs) : envs[i].incomeAllocationType = kind

\* mutant: the check for conflicting kinds left out
ConflictingKindsOmitted(hasFixed, hasPercentage) == FALSE

\* page.tsx:218
ConflictingKinds(hasFixed, hasPercentage) == hasFixed /\ hasPercentage

\* mutant: only a fixed total above the amount is rejected
FixedMismatchOverOnly(hasFixed, fixedTotal, total) ==
  hasFixed /\ RatGt(Num(fixedTotal), total)

\* page.tsx:223  hasFixed && fixedTotal !== totalAmount
FixedMismatch(hasFixed, fixedTotal, total) == hasFixed /\ ~RatEq(Num(fixedTotal), total)

\* mutant: a total of exactly 100 rejected
PercentageOutOfRangeStrict(hasPercentage, percentageTotal) ==
  hasPercentage /\ (percentageTotal < 0 \/ percentageTotal >= 100)

\* page.tsx:228
PercentageOutOfRange(hasPercentage, percentageTotal) ==
  hasPercentage /\ (percentageTotal < 0 \/ percentageTotal > 100)

validateIncomeAllocation(envs, total) ==
  LET fixedTotal == SumAllocation(envs, "fixed")
      percentageTotal == SumAllocation(envs, "percentage")
      hasFixed == HasKind(envs, "fixed")
      hasPercentage == HasKind(envs, "percentage")
  IN  IF ConflictingKinds(hasFixed, hasPercentage)
        THEN [isValid |-> FALSE,
              message |-> "Conflicting allocation types (fixed and percentage) detected."]
      ELSE IF FixedMismatch(hasFixed, fixedTotal, total)
        THEN [isValid |-> FALSE,
              message |-> "Fixed allocations do not sum up to the total amount."]
      ELSE IF PercentageOutOfRange(hasPercentage, percentageTotal)
        THEN [isValid |-> FALSE,
              message |-> "Percentage allocations must be between 0 and 100."]
      ELSE [isValid |-> TRUE, message |-> Undefined]

\* ------------------------------------------------------ identifiers
\* `${prefix}-${envelope}-${time}-${suffix}`; a part that the template does
\* not have is "" (envelope) or <<>> (suffix)
Id(prefix, envelope, time, suffix) ==
  [prefix |-> prefix, envelope |-> envelope, time |-> time, suffix |-> suffix]

Transaction(id, envelopeId, amount, description, date, accountId) ==
  [id |-> id, envelopeId |-> envelopeId, amount |-> amount,
   description |-> description, date |-> date, accountId |-> accountId]

\* --------------------------------------------------------- income processor
\* mutant: the envelopeId of the transaction not looked at
IsIncome(transaction) == RatGt(transaction.amount, Num(0))

\* page.tsx:124  transaction.amount > 0 && !transaction.envelopeId
IsUnassignedIncome(transaction) ==
  RatGt(transaction.amount, Num(0)) /\ transaction.envelopeId = Undefined

\* page.tsx:126
AccountEnvelopes(envs, accountId) ==
  SelectSeq(envs, LAMBDA env : env.accountId = accountId)

\* JavaScript truthiness of an optional number: undefined and 0 are falsy
TruthyNumber(v) == v # NoNumber /\ v[1] # 0

\* page.tsx:127  env.incomeAllocation && env.incomeAllocationType
HasAllocation(env) ==
  TruthyNumber(env.incomeAllocation) /\ env.incomeAllocationType # Undefined

EnvelopesWithAllocation(accountEnvelopes) == SelectSeq(accountEnvelopes, HasAllocation)

RECURSIVE TotalAllocated(_)
TotalAllocated(envs) ==
  IF envs = <<>> THEN 0 ELSE Head(envs).allocated + TotalAllocated(Tail(envs))

\* mutant: the allocated amount not divided by the total
ProportionalAmountUndivided(transaction, envelope, total) ==
  RatMul(transaction.amount, Num(envelope.allocated))

\* page.tsx:138-139, 179-180
ProportionalAmount(transaction, envelope, total) ==
  RatMul(transaction.amount, Rat(envelope.allocated, total))

\* mutant: a percentage taken as a fraction, a fixed amount not capped
CustomAmountUnscaled(transaction, envelope) ==
  IF envelope.incomeAllocationType = "percentage"
    THEN RatMul(transaction.amount, Num(envelope.incomeAllocation[1]))
  ELSE IF envelope.incomeAllocationType = "fixed"
    THEN Num(envelope.incomeAllocation[1])
  ELSE Num(0)

\* page.tsx:155-160
CustomAmount(transaction, envelope) ==
  IF envelope.incomeAllocationType = "percentage"
    THEN RatMul(transaction.amount, Rat(envelope.incomeAllocation[1], 100))
  ELSE IF envelope.incomeAllocationType = "fixed"
    THEN RatMin(Num(envelope.incomeAllocation[1]), transaction.amount)
  ELSE Num(0)

\* page.tsx:140, 162, 181  if (allocatedAmount > 0)
Allocates(share) == RatGt(share.amount, Num(0))

\* page.tsx:141-148, 163-170, 182-189; the k-th push takes the k-th random
AllocationTransaction(share, transaction, time, random) ==
  Transaction(Id("allocation", share.envelope.id, time, <<random>>),
              share.envelope.id,
              share.amount,
              "Income allocation - " \o share.envelope.name,
              transaction.date,
              transaction.accountId)

PushAllocations(shares, transaction, time, random) ==
  LET kept == SelectSeq(shares, Allocates)
  IN  [k \in 1..Len(kept) |->
         AllocationTransaction(kept[k], transaction, time, random + k - 1)]

\* page.tsx:135-151, 176-192
ProportionalAllocations(transaction, accountEnvelopes, time, random) ==
  LET total == TotalAllocated(accountEnvelopes)
  IN  IF Len(accountEnvelopes) > 0 /\ total > 0
        THEN PushAllocations(
               [i \in 1..Len(accountEnvelopes) |->
                  [envelope |-> accountEnvelopes[i],
                   amount |-> ProportionalAmount(transaction, accountEnvelopes[i], total)]],
               transaction, time, random)
        ELSE <<>>

\* page.tsx:154-172
CustomAllocations(transaction, envelopesWithAllocation, time, random) ==
  PushAllocations(
    [i \in 1..Len(envelopesWithAllocation) |->
       [envelope |-> envelopesWithAllocation[i],
        amount |-> CustomAmount(transaction, envelopesWithAllocation[i])]],
    transaction, time, random)

\* mutant: the test of the validation result inverted
StrategyInverted(envelopesWithAllocation, amount) ==
  IF Len(envelopesWithAllocation) > 0
    THEN IF validateIncomeAllocation(envelopesWithAllocation, amount).isValid
           THEN "fallback" ELSE "custom"
    ELSE "proportional"

\* page.tsx:129-132, 152, 174: which distribution an unassigned income gets
Strategy(envelopesWithAllocation, amount) ==
  IF Len(envelopesWithAllocation) > 0
    THEN IF ~validateIncomeAllocation(envelopesWithAllocation, amount).isValid
           THEN "fallback" ELSE "custom"
    ELSE "proportional"

\* mutant: the fallback distributes over the rule-bearing envelopes only
FallbackEnvelopesWithRule(accountEnvelopes, envelopesWithAllocation) ==
  envelopesWithAllocation

\* page.tsx:135-137: the fallback distributes over accountEnvelopes
FallbackEnvelopes(accountEnvelopes, envelopesWithAllocation) == accountEnvelopes

\* page.tsx:123-195: one iteration of newTransactions.forEach
ProcessTransaction(transaction, envs, time, random) ==
  IF ~IsUnassignedIncome(transaction)
    THEN [strategy |-> "none", validated |-> <<>>, pushed |-> <<>>]
  ELSE
    LET accountEnvelopes == AccountEnvelopes(envs, transaction.accountId)
        envelopesWithAllocation == EnvelopesWithAllocation(accountEnvelopes)
        strategy == Strategy(envelopesWithAllocation, transaction.amount)
    IN  [strategy |-> strategy,
         validated |-> envelopesWithAllocation,
         pushed |->
           IF strategy = "custom"
             THEN CustomAllocations(transaction, envelopesWithAllocation, time, random)
           ELSE IF strategy = "fallback"
             THEN ProportionalAllocations(
                    transaction,
                    FallbackEnvelopes(accountEnvelopes, envelopesWithAllocation),
                    time, random)
             ELSE ProportionalAllocations(transaction, accountEnvelopes, time, random)]

RECURSIVE ForEachTransaction(_, _, _, _)
ForEachTransaction(batch, envs, time, random) ==
  IF batch = <<>> THEN <<>>
  ELSE LET first == ProcessTransaction(Head(batch), envs, time, random)
       IN  <<first>> \o
           ForEachTransaction(Tail(batch), envs, time, random + Len(first.pushed))

\* mutant: the allocations of the last income come first
RECURSIVE FlattenBackwards(_)
FlattenBackwards(seqs) ==
  IF seqs = <<>> THEN <<>> ELSE FlattenBackwards(Tail(seqs)) \o Head(seqs)

RECURSIVE Flatten(_)
Flatten(seqs) == IF seqs = <<>> THEN <<>> ELSE Head(seqs) \o Flatten(Tail(seqs))

\* mutant: allTransactions starts empty instead of as a copy of the input
AllTransactionsWithoutInput(newTransactions, steps) ==
  Flatten([i \in 1..Len(steps) |-> steps[i].pushed])

\* page.tsx:120 and the pushes of the loop
AllTransactions(newTransactions, steps) ==
  newTransactions \o Flatten([i \in 1..Len(steps) |-> steps[i].pushed])

\* mutant: the last transaction of the batch is left for a later update
AppendAllButLast(prevTransactions, allTransactions) ==
  prevTransactions \o SubSeq(allTransactions, 1, Len(allTransactions) - 1)

\* page.tsx:198  prevTransactions => [...prevTransactions, ...allTransactions]
AppendAll(prevTransactions, allTransactions) == prevTransactions \o allTransactions

NoCall ==
  [newTransactions |-> <<>>, envelopes |-> <<>>, prevTransactions |-> <<>>,
   steps |-> <<>>, allTransactions |-> <<>>]

NoPaid ==
  [amount |-> NaN, selectedAccountId |-> Undefined, distributionMethod |-> Undefined,
   distribution |-> <<>>, transactions |-> <<>>]

NoOp == [name |-> "none", prevTransactions |-> <<>>, argument |-> <<>>]

\* page.tsx:119-199
handleTransactionsAdded(newTransactions) ==
  /\ Len(transactions) < MaxLedger
  /\ \E steps \in {ForEachTransaction(newTransactions, envelopes, now, randoms)} :
     \E allTransactions \in {AllTransactions(newTransactions, steps)} :
      /\ transactions' = AppendAll(transactions, allTransactions)
      /\ randoms' = randoms + (Len(allTransactions) - Len(newTransactions))
      /\ call' = [newTransactions |-> newTransactions, envelopes |-> envelopes,
                  prevTransactions |-> transactions, steps |-> steps,
                  allTransactions |-> allTransactions]
      /\ op' = NoOp
      /\ UNCHANGED <<accounts, envelopes, setupCompleted, now, editingTransaction>>
      /\ DataChanged

\* ------------------------------------------------------------ the clock
Tick ==
  /\ now < MaxClock
  /\ now' = now + 1
  /\ UNCHANGED <<accounts, envelopes, transactions, setupCompleted, randoms, call>>
  /\ UNCHANGED <<editingTransaction, paid, op, upload>>
  /\ UNCHANGED sessionVars
  /\ UNCHANGED valVars

\* ------------------------------------------------------------ set-up wizard
Envelope(i, allocated, accountId, rule) ==
  [id |-> EnvelopeIdAt(i), name |-> EnvelopeNameAt(i), allocated |-> allocated,
   spent |-> 0, accountId |-> accountId,
   incomeAllocation |-> rule.value, incomeAllocationType |-> rule.kind]

NoRule == [value |-> NoNumber, kind |-> Undefined]

Rule(kind, value) == [value |-> <<value>>, kind |-> kind]

\* the rules the income set-up step is given (GetPaid.tsx:1062-1097)
WizardRules ==
  {NoRule, Rule("percentage", 0), Rule("percentage", 60), Rule("fixed", 5), Rule("fixed", 10)}

EnvelopeChoices(i) ==
  {Envelope(i, allocated, accountId, rule) :
     allocated \in AllocatedValues, accountId \in AccountIds, rule \in WizardRules}

RECURSIVE EnvelopeLists(_)
EnvelopeLists(n) ==
  IF n = 0 THEN {<<>>}
  ELSE {Append(list, envelope) :
          list \in EnvelopeLists(n - 1), envelope \in EnvelopeChoices(n)}

\* every envelope list the wizard can hand over, up to MaxEnvelopes envelopes
WizardEnvelopes == UNION {EnvelopeLists(n) : n \in 0..MaxEnvelopes}

\* a few of them, one for each way an income can be distributed
SampleEnvelopes ==
  {<<>>,
   <<Envelope(1, 5, "a1", NoRule)>>,
   <<Envelope(1, 5, "a1", NoRule), Envelope(2, 3, "a1", NoRule)>>,
   <<Envelope(1, 0, "a1", NoRule), Envelope(2, 0, "a2", NoRule)>>,
   <<Envelope(1, 5, "a1", Rule("fixed", 5)), Envelope(2, 3, "a1", Rule("fixed", 10))>>,
   <<Envelope(1, 5, "a1", Rule("percentage", 60)), Envelope(2, 3, "a1", Rule("fixed", 10))>>}

\* page.tsx:249-255, called by SetupWizard.handleComplete (GetPaid.tsx:570-607)
handleSetupComplete(wizardAccounts, wizardEnvelopes) ==
  /\ accounts' = wizardAccounts
  /\ envelopes' = wizardEnvelopes
  /\ transactions' = <<>>
  /\ setupCompleted' = TRUE
  /\ UNCHANGED <<now, randoms, call, editingTransaction, paid, op, upload>>
  /\ DataChanged
  /\ UNCHANGED valVars

\* the wizard is shown until set-up is completed (page.tsx:81, 254)
SetupComplete ==
  /\ ~setupCompleted
  /\ \E wizardEnvelopes \in WizardEnvelopes :
       handleSetupComplete(<<"a1", "a2">>, wizardEnvelopes)

SampleSetupComplete ==
  /\ ~setupCompleted
  /\ \E wizardEnvelopes \in SampleEnvelopes :
       handleSetupComplete(<<"a1", "a2">>, wizardEnvelopes)

\* ------------------------------------------------------------ manual entry
EnteredAmounts == {15}

EnteredDates == {10}

\* part_000:147  isExpense ? -Math.abs(numAmount) : Math.abs(numAmount)
TransactionAmount(isExpense, numAmount) ==
  IF isExpense THEN Num(-Abs(numAmount)) ELSE Num(Abs(numAmount))

EnvelopeIdsOf(envs) == {envs[i].id : i \in 1..Len(envs)}

AccountIdsOf(accs) == {accs[i] : i \in 1..Len(accs)}

\* part_000:45-48  id: `manual-${Date.now()}`
ManualTransaction(entry, time) ==
  Transaction(Id("manual", "", time, <<>>), entry.envelopeId, entry.amount,
              entry.description, entry.date, entry.accountId)

\* part_000:38-51
handleManualTransactionAdded(entry) ==
  handleTransactionsAdded(<<ManualTransaction(entry, now)>>)

\* ManualEntry.handleSubmit, part_000:138-163
ManualEntrySubmit ==
  /\ accounts # <<>>
  /\ \E numAmount \in EnteredAmounts, isExpense \in BOOLEAN,
        selectedEnvelope \in EnvelopeIdsOf(envelopes) \cup {Undefined},
        selectedAccount \in AccountIdsOf(accounts), date \in EnteredDates :
       handleManualTransactionAdded(
         [amount |-> TransactionAmount(isExpense, numAmount),
          description |-> "memo", date |-> date,
          envelopeId |-> selectedEnvelope, accountId |-> selectedAccount])
  /\ paid' = NoPaid
  /\ upload' = NoUpload
  /\ UNCHANGED valVars

\* ------------------------------------------------------------ file import
ParsedAmounts == {0, 15}

ParsedTransactions ==
  UNION {[1..n -> {[amount |-> Num(a), description |-> "row", date |-> d] :
                     a \in ParsedAmounts, d \in EnteredDates}]
         : n \in 0..MaxBatch}

\* part_000:32  accounts?.[0]?.id || 'default-account'
FirstAccount(accs) == IF accs # <<>> THEN accs[1] ELSE "default-account"

\* part_000:26-33  id: `imported-${Date.now()}-${index}`, index from 0
ImportedTransaction(parsed, index, time, accs) ==
  Transaction(Id("imported", "", time, <<index>>), Undefined, parsed.amount,
              parsed.description, parsed.date, FirstAccount(accs))

\* part_000:25-36
handleFileTransactionsParsed(parsedTransactions) ==
  handleTransactionsAdded(
    [i \in 1..Len(parsedTransactions) |->
       ImportedTransaction(parsedTransactions[i], i - 1, now, accounts)])

\* dataService.ts:473-481: parseCSV puts the account selected in the form on
\* every row it returns
OnSelectedAccount(parsedTransactions, selectedAccountId) ==
  [i \in 1..Len(parsedTransactions) |->
     [amount |-> parsedTransactions[i].amount,
      description |-> parsedTransactions[i].description,
      date |-> parsedTransactions[i].date,
      accountId |-> selectedAccountId]]

\* FileUpload.handleUpload, dataService.ts:522-554; the button needs a selected
\* account (dataService.ts:612-629)
FileImport ==
  /\ accounts # <<>>
  /\ \E parsedTransactions \in ParsedTransactions,
        selectedAccountId \in AccountIdsOf(accounts) :
       /\ handleFileTransactionsParsed(
            OnSelectedAccount(parsedTransactions, selectedAccountId))
       /\ upload' = [selectedAccountId |-> selectedAccountId]
  /\ paid' = NoPaid
  /\ UNCHANGED valVars

\* ------------------------------------------------------------ GetPaid
PaycheckAmounts == {15}

\* GetPaid.tsx:341  parseFloat(e.target.value) || 0
CustomValues == {0, 2}

\* GetPaid.tsx:336-346: the amounts typed in custom mode, kept per envelope id
\* whichever account is selected afterwards; entries in envelope-list order
CustomAllocationChoices(envs) ==
  UNION {[ids -> CustomValues] : ids \in SUBSET EnvelopeIdsOf(envs)}

EntriesOf(envs, customAllocations) ==
  LET listed == SelectSeq(envs, LAMBDA env : env.id \in DOMAIN customAllocations)
  IN  [i \in 1..Len(listed) |->
         [envelopeId |-> listed[i].id, amount |-> Num(customAllocations[listed[i].id])]]

\* mutant: every envelope receives the whole paycheck
EqualShareWhole(paycheckAmount, accountEnvelopes) == paycheckAmount

\* GetPaid.tsx:79-83
EqualShare(paycheckAmount, accountEnvelopes) ==
  RatMul(paycheckAmount, Rat(1, Len(accountEnvelopes)))

\* mutant: the allocated amount not divided by the total
ProportionalShareUndivided(paycheckAmount, envelope, total) ==
  RatMul(paycheckAmount, Num(envelope.allocated))

\* GetPaid.tsx:85-88; the division is not guarded, 0 / 0 is NaN
ProportionalShare(paycheckAmount, envelope, total) ==
  RatMul(paycheckAmount, Rat(envelope.allocated, total))

\* GetPaid.tsx:70-94: the entries of the distribution object, in insertion order
calculateDistribution(paycheckAmount, selectedAccountId, envs, method, custom) ==
  LET accountEnvelopes == AccountEnvelopes(envs, selectedAccountId)
      total == TotalAllocated(accountEnvelopes)
  IN  IF Len(accountEnvelopes) = 0 THEN <<>>
      ELSE IF method = "equal"
        THEN [i \in 1..Len(accountEnvelopes) |->
                [envelopeId |-> accountEnvelopes[i].id,
                 amount |-> EqualShare(paycheckAmount, accountEnvelopes)]]
      ELSE IF method = "proportional"
        THEN [i \in 1..Len(accountEnvelopes) |->
                [envelopeId |-> accountEnvelopes[i].id,
                 amount |-> ProportionalShare(paycheckAmount, accountEnvelopes[i], total)]]
      ELSE EntriesOf(envs, custom)

\* GetPaid.tsx:124  envelopes.find(e => e.id === envelopeId)?.name
NameOf(envs, envelopeId) ==
  LET found == SelectSeq(envs, LAMBDA env : env.id = envelopeId)
  IN  IF found = <<>> THEN Undefined ELSE found[1].name

\* GetPaid.tsx:109-115  id: `paycheck-${Date.now()}`, no envelopeId
PaycheckTransaction(paycheckAmount, selectedAccountId, time) ==
  Transaction(Id("paycheck", "", time, <<>>), Undefined, paycheckAmount,
              "Paycheck", time, selectedAccountId)

\* GetPaid.tsx:120-127  id: `allocation-${envelopeId}-${Date.now()}`
PaycheckAllocation(entry, selectedAccountId, envs, time) ==
  Transaction(Id("allocation", entry.envelopeId, time, <<>>), entry.envelopeId,
              entry.amount, "Paycheck allocation - " \o NameOf(envs, entry.envelopeId),
              time, selectedAccountId)

\* mutant: every entry of the mapping becomes a transaction
EntryAllocatesAlways(entry) == TRUE

\* GetPaid.tsx:119  if (allocatedAmount > 0)
EntryAllocates(entry) == RatGt(entry.amount, Num(0))

\* GetPaid.tsx:105-129: the transactions handed to onIncomeAdded
PaycheckTransactions(paycheckAmount, selectedAccountId, envs, distribution, time) ==
  LET kept == SelectSeq(distribution, EntryAllocates)
  IN  <<PaycheckTransaction(paycheckAmount, selectedAccountId, time)>> \o
      [k \in 1..Len(kept) |-> PaycheckAllocation(kept[k], selectedAccountId, envs, time)]

\* GetPaid.handleSubmit, GetPaid.tsx:96-138; onIncomeAdded is handleTransactionsAdded
\* (page.tsx:611-616)
GetPaidSubmit ==
  /\ accounts # <<>>
  /\ \E amount \in PaycheckAmounts, selectedAccountId \in AccountIdsOf(accounts),
        distributionMethod \in {"proportional", "equal", "custom"},
        customAllocations \in CustomAllocationChoices(envelopes) :
       LET distribution ==
             calculateDistribution(Num(amount), selectedAccountId, envelopes,
                                   distributionMethod, customAllocations)
           paycheckTransactions ==
             PaycheckTransactions(Num(amount), selectedAccountId, envelopes,
                                  distribution, now)
       IN  /\ distributionMethod # "custom" => customAllocations = << >>
           /\ handleTransactionsAdded(paycheckTransactions)
           /\ paid' = [amount |-> Num(amount), selectedAccountId |-> selectedAccountId,
                       distributionMethod |-> distributionMethod,
                       distribution |-> distribution,
                       transactions |-> paycheckTransactions]
  /\ upload' = NoUpload
  /\ UNCHANGED valVars

\* ------------------------------------------------- recent transactions
RecentCount == 5

\* Array.prototype.slice(-n): the last n elements, all of them if there are fewer
SliceLast(list, n) ==
  SubSeq(list, IF Len(list) > n THEN Len(list) - n + 1 ELSE 1, Len(list))

\* Array.prototype.reverse
Reverse(list) == [k \in 1..Len(list) |-> list[Len(list) - k + 1]]

\* page.tsx:432  transactions.slice(-5).reverse()
RecentTransactions(ledger) == Reverse(SliceLast(ledger, RecentCount))

\* ------------------------------------------------- editing and deleting
\* page.tsx:447, 491  onClick={() => setEditingTransaction(transaction)}
EditClick ==
  /\ editingTransaction = <<>>
  /\ \E i \in 1..Len(transactions) : editingTransaction' = <<transactions[i]>>
  /\ UNCHANGED <<accounts, envelopes, transactions, setupCompleted, now, randoms>>
  /\ UNCHANGED <<call, paid, op, upload>>
  /\ UNCHANGED sessionVars
  /\ UNCHANGED valVars

EditedAmounts == {7}

\* TransactionEdit.tsx:39-48  { ...transaction, amount, description, date,
\* envelopeId: selectedEnvelope || undefined, accountId }
UpdatedTransaction(transaction, numAmount, isExpense, selectedEnvelope, selectedAccount) ==
  [transaction EXCEPT
     !.amount = TransactionAmount(isExpense, numAmount),
     !.envelopeId = IF selectedEnvelope = "" THEN Undefined ELSE selectedEnvelope,
     !.accountId = selectedAccount]

\* page.tsx:274  prevTransactions.map(tx => tx.id === updatedTransaction.id ? ... : tx)
MapTransactions(prevTransactions, updatedTransaction) ==
  [i \in 1..Len(prevTransactions) |->
     IF prevTransactions[i].id = updatedTransaction.id
       THEN updatedTransaction ELSE prevTransactions[i]]

\* mutant: the edit also recomputes the spent amount of the assigned envelope
handleTransactionEditRecomputing(updatedTransaction) ==
  /\ transactions' = MapTransactions(transactions, updatedTransaction)
  /\ envelopes' =
       [j \in 1..Len(envelopes) |->
          IF envelopes[j].id = updatedTransaction.envelopeId
            THEN [envelopes[j] EXCEPT !.spent = Abs(updatedTransaction.amount.n)]
            ELSE envelopes[j]]
  /\ op' = [name |-> "edit", prevTransactions |-> transactions,
            argument |-> <<updatedTransaction>>]
  /\ call' = NoCall
  /\ paid' = NoPaid
  /\ upload' = NoUpload
  /\ UNCHANGED <<accounts, setupCompleted, now, randoms>>
  /\ DataChanged

\* page.tsx:273-275
handleTransactionEdit(updatedTransaction) ==
  /\ transactions' = MapTransactions(transactions, updatedTransaction)
  /\ op' = [name |-> "edit", prevTransactions |-> transactions,
            argument |-> <<updatedTransaction>>]
  /\ call' = NoCall
  /\ paid' = NoPaid
  /\ upload' = NoUpload
  /\ UNCHANGED <<accounts, envelopes, setupCompleted, now, randoms>>
  /\ DataChanged

\* TransactionEdit.handleSubmit (TransactionEdit.tsx:30-49) and onSave (page.tsx:576-579)
TransactionEditSave ==
  /\ editingTransaction # <<>>
  /\ \E numAmount \in EditedAmounts, isExpense \in BOOLEAN,
        selectedEnvelope \in EnvelopeIdsOf(envelopes) \cup {""},
        selectedAccount \in AccountIdsOf(accounts) :
       handleTransactionEdit(
         UpdatedTransaction(editingTransaction[1], numAmount, isExpense,
                            selectedEnvelope, selectedAccount))
  /\ editingTransaction' = <<>>
  /\ UNCHANGED valVars

\* page.tsx:278  prevTransactions.filter(tx => tx.id !== transactionId)
FilterTransactions(prevTransactions, transactionId) ==
  SelectSeq(prevTransactions, LAMBDA tx : tx.id # transactionId)

\* page.tsx:277-279
handleTransactionDelete(transactionId) ==
  /\ transactions' = FilterTransactions(transactions, transactionId)
  /\ op' = [name |-> "delete", prevTransactions |-> transactions,
            argument |-> <<transactionId>>]
  /\ call' = NoCall
  /\ paid' = NoPaid
  /\ upload' = NoUpload
  /\ UNCHANGED <<accounts, envelopes, setupCompleted, now, randoms, editingTransaction>>
  /\ DataChanged

\* an id that no transaction has: the clock never reaches MaxClock + 1
UnknownId == Id("manual", "", MaxClock + 1, <<>>)

IdsOf(ledger) == {ledger[i].id : i \in 1..Len(ledger)}

\* the handler called with the id of a transaction of the ledger, or with an
\* id that is not in the ledger
TransactionDelete ==
  /\ \E transactionId \in IdsOf(transactions) \cup {UnknownId} :
       handleTransactionDelete(transactionId)
  /\ UNCHANGED valVars

\* ------------------------------------------------------------ specifications
InitApp ==
  /\ accounts = <<>>
  /\ envelopes = <<>>
  /\ transactions = <<>>
  /\ setupCompleted = FALSE
  /\ now = 0
  /\ randoms = 0
  /\ call = NoCall
  /\ editingTransaction = <<>>
  /\ paid = NoPaid
  /\ op = NoOp
  /\ upload = NoUpload
  /\ user = NoUser
  /\ pending = [uid \in Users |-> 0]
  /\ firestore = [uid \in Users |-> <<>>]
  /\ origin = NoUser
  /\ saved = NoSave

\* validation is <<>> until validateIncomeAllocation has returned, then <<result>>
InitVal ==
  /\ rules = <<>>
  /\ totalAmount = Num(0)
  /\ validation = <<>>

Init == InitApp /\ InitVal

Next ==
  \/ Tick
  \/ SampleSetupComplete
  \/ ManualEntrySubmit
  \/ FileImport
  \/ GetPaidSubmit

Spec == Init /\ [][Next]_vars

\* the first batch added after set-up, over every envelope list of the wizard
FirstBatch(A) == transactions = <<>> /\ call = NoCall /\ A

NextIncome ==
  \/ SetupComplete
  \/ FirstBatch(ManualEntrySubmit)
  \/ FirstBatch(FileImport)

SpecIncome == Init /\ [][NextIncome]_vars

\* ------------------------------------------- paychecks entered in GetPaid
RECURSIVE PlainEnvelopeLists(_)
PlainEnvelopeLists(n) ==
  IF n = 0 THEN {<<>>}
  ELSE {Append(list, Envelope(n, allocated, accountId, NoRule)) :
          list \in PlainEnvelopeLists(n - 1),
          allocated \in AllocatedValues, accountId \in AccountIds}

\* every envelope list without rules up to MaxEnvelopes envelopes, and the samples
PaidEnvelopes ==
  UNION {PlainEnvelopeLists(n) : n \in 0..MaxEnvelopes} \cup SampleEnvelopes

PaidSetupComplete ==
  /\ ~setupCompleted
  /\ \E wizardEnvelopes \in PaidEnvelopes :
       handleSetupComplete(<<"a1", "a2">>, wizardEnvelopes)

\* the first paycheck entered after set-up
NextPaid ==
  \/ PaidSetupComplete
  \/ FirstBatch(GetPaidSubmit)

SpecPaid == Init /\ [][NextPaid]_vars

\* --------------------------------------- the ledger: append, edit, delete
LedgerEnvelopes ==
  {<<Envelope(1, 5, "a1", NoRule)>>,
   <<Envelope(1, 5, "a1", NoRule), Envelope(2, 3, "a2", NoRule)>>}

LedgerSetupComplete ==
  /\ ~setupCompleted
  /\ \E wizardEnvelopes \in LedgerEnvelopes :
       handleSetupComplete(<<"a1", "a2">>, wizardEnvelopes)

\* transactions are appended, then at most one is deleted, then at most one
\* edit is saved
BeforeEdits(A) == op = NoOp /\ A

BeforeEdit(A) == op.name # "edit" /\ A

NextLedger ==
  \/ Tick
  \/ LedgerSetupComplete
  \/ BeforeEdits(ManualEntrySubmit)
  \/ BeforeEdits(EditClick)
  \/ BeforeEdits(TransactionDelete)
  \/ BeforeEdit(TransactionEditSave)

SpecLedger == Init /\ [][NextLedger]_vars

\* ------------------------- rule values as the wizard stores them
\* GetPaid.tsx:1083-1094: the value is parseFloat(e.target.value) || 0; the min
\* and max attributes of the input are not enforced, the wizard has no form
StoredRuleValues == {-20, -5, 0, 5, 10, 20, 120}

\* GetPaid.tsx:1062-1094: both inputs of an envelope store a type together with
\* a value, { type, value: parseFloat(e.target.value) || 0 }
WizardAllocations ==
  {[type |-> kind, value |-> value] : kind \in AllocationKinds, value \in StoredRuleValues}

\* GetPaid.tsx:510, 1097-1105: incomeAllocations has an entry for the envelopes
\* whose inputs were used and not cleared
IncomeAllocationChoices(wizardEnvelopes) ==
  UNION {[ids -> WizardAllocations] : ids \in SUBSET EnvelopeIdsOf(wizardEnvelopes)}

\* GetPaid.tsx:550-568: the envelopes added in the wizard have no allocation fields
AddedEnvelopes(n) == [j \in 1..n |-> Envelope(j, 5, "a1", NoRule)]

\* mutant: the value of the allocation copied without its type
WithAllocationValueOnly(envelope, allocation) ==
  [envelope EXCEPT !.incomeAllocation = <<allocation.value>>]

\* GetPaid.tsx:575-581  { ...envelope, incomeAllocation: allocation.value,
\* incomeAllocationType: allocation.type }
WithAllocation(envelope, allocation) ==
  [envelope EXCEPT !.incomeAllocation = <<allocation.value>>,
                   !.incomeAllocationType = allocation.type]

\* GetPaid.tsx:573-583
EnvelopesWithAllocations(wizardEnvelopes, incomeAllocations) ==
  [j \in 1..Len(wizardEnvelopes) |->
     IF wizardEnvelopes[j].id \in DOMAIN incomeAllocations
       THEN WithAllocation(wizardEnvelopes[j], incomeAllocations[wizardEnvelopes[j].id])
       ELSE wizardEnvelopes[j]]

\* SetupWizard.handleComplete, GetPaid.tsx:570-607
RulesSetupComplete ==
  /\ ~setupCompleted
  /\ \E n \in 0..MaxEnvelopes :
       \E incomeAllocations \in IncomeAllocationChoices(AddedEnvelopes(n)) :
         handleSetupComplete(<<"a1", "a2">>,
                             EnvelopesWithAllocations(AddedEnvelopes(n), incomeAllocations))

\* the first manual entry after set-up
NextRules ==
  \/ RulesSetupComplete
  \/ FirstBatch(ManualEntrySubmit)

SpecRules == Init /\ [][NextRules]_vars

\* ------------------------------------------------------------ accounts
MaxAccounts == 3

\* part_000:367  id: editingAccount?.id || `${formData.type}-${Date.now()}`;
\* the form starts with type 'checking'
NewAccountId(time) == "checking-" \o ToString(time)

\* page.tsx:261-263
handleAccountAdd(newAccount) ==
  /\ accounts' = Append(accounts, newAccount)
  /\ UNCHANGED <<envelopes, transactions, setupCompleted, now, randoms, call>>
  /\ UNCHANGED <<editingTransaction, paid, op, upload>>
  /\ DataChanged

\* AccountManagement.handleSubmit without an account being edited,
\* part_000:360-386
AccountAdd ==
  /\ Len(accounts) < MaxAccounts
  /\ handleAccountAdd(NewAccountId(now))
  /\ UNCHANGED valVars

\* page.tsx:266  prevAccounts.filter(acc => acc.id !== accountId)
FilterAccounts(prevAccounts, accountId) ==
  SelectSeq(prevAccounts, LAMBDA acc : acc # accountId)

\* page.tsx:265-267: the envelopes and the transactions are left as they are
handleAccountDelete(accountId) ==
  /\ accounts' = FilterAccounts(accounts, accountId)
  /\ UNCHANGED <<envelopes, transactions, setupCompleted, now, randoms, call>>
  /\ UNCHANGED <<editingTransaction, paid, op, upload>>
  /\ DataChanged

\* AccountManagement.handleDelete, confirmed, part_000:394-398; the button is
\* shown for every account of the list (part_000:489)
AccountDelete ==
  /\ \E accountId \in AccountIdsOf(accounts) : handleAccountDelete(accountId)
  /\ UNCHANGED valVars

\* accounts are added and deleted around the first transaction
NextAccounts ==
  \/ Tick
  \/ LedgerSetupComplete
  \/ FirstBatch(ManualEntrySubmit)
  \/ AccountAdd
  \/ AccountDelete

SpecAccounts == Init /\ [][NextAccounts]_vars

\* ------------------------------------------------------- envelope edits
\* what the number inputs of the form hold when it is submitted: a text that
\* parseFloat reads as the number, <<>> for the empty text
TypedAllocated == {<<0>>, <<7>>}

TypedIncomeAllocations == {NoNumber, <<-5>>, <<0>>, <<60>>, <<120>>}

\* dataService.ts:184-188  isNaN(numAllocated) || numAllocated <= 0
\* (the name of the envelope is kept, it is not empty)
AllocatedRejected(allocated) == allocated = NoNumber \/ allocated[1] =< 0

\* dataService.ts:191-201; an empty text is not checked
IncomeAllocationRejected(incomeAllocation, incomeAllocationType) ==
  /\ incomeAllocation # NoNumber
  /\ \/ incomeAllocation[1] < 0
     \/ incomeAllocationType = "percentage" /\ incomeAllocation[1] > 100

\* mutant: the kind selected in the form is stored although the value is empty
StoredKindKept(incomeAllocation, incomeAllocationType) == incomeAllocationType

\* dataService.ts:210  incomeAllocation ? incomeAllocationType : undefined
StoredKind(incomeAllocation, incomeAllocationType) ==
  IF incomeAllocation # NoNumber THEN incomeAllocationType ELSE Undefined

\* dataService.ts:203-211  { ...envelope, name, allocated, color, accountId,
\* incomeAllocation, incomeAllocationType }
UpdatedEnvelope(envelope, allocated, selectedAccount, incomeAllocation, incomeAllocationType) ==
  [envelope EXCEPT
     !.allocated = allocated[1],
     !.accountId = selectedAccount,
     !.incomeAllocation = incomeAllocation,
     !.incomeAllocationType = StoredKind(incomeAllocation, incomeAllocationType)]

\* page.tsx:270  prevEnvelopes.map(env => env.id === updatedEnvelope.id ? ... : env)
MapEnvelopes(prevEnvelopes, updatedEnvelope) ==
  [j \in 1..Len(prevEnvelopes) |->
     IF prevEnvelopes[j].id = updatedEnvelope.id THEN updatedEnvelope ELSE prevEnvelopes[j]]

\* page.tsx:269-271
handleEnvelopeUpdate(updatedEnvelope) ==
  /\ envelopes' = MapEnvelopes(envelopes, updatedEnvelope)
  /\ UNCHANGED <<accounts, transactions, setupCompleted, now, randoms, call>>
  /\ UNCHANGED <<editingTransaction, paid, op, upload>>
  /\ DataChanged

\* the Edit button of an envelope (page.tsx:521) and EnvelopeEdit.handleSubmit
\* (dataService.ts:181-214) with onEnvelopeUpdated (page.tsx:596-599); the
\* account is one of the select, which lists the accounts and starts with the
\* account of the envelope
EnvelopeEditSubmit ==
  /\ \E j \in 1..Len(envelopes), allocated \in TypedAllocated,
        selectedAccount \in AccountIdsOf(accounts),
        incomeAllocation \in TypedIncomeAllocations,
        incomeAllocationType \in AllocationKinds :
       /\ ~AllocatedRejected(allocated)
       /\ ~IncomeAllocationRejected(incomeAllocation, incomeAllocationType)
       /\ handleEnvelopeUpdate(
            UpdatedEnvelope(envelopes[j], allocated, selectedAccount,
                            incomeAllocation, incomeAllocationType))
  /\ UNCHANGED valVars

\* the envelopes of the wizard, with and without rules, edited afterwards
NextEnvelopes ==
  \/ RulesSetupComplete
  \/ EnvelopeEditSubmit

SpecEnvelopes == Init /\ [][NextEnvelopes]_vars

\* ------------------------------------------------- sign-in and sign-out
MaxLoads == 1

\* dataService.ts:84-112: what loadUserData returns when the user has no document
DefaultEnvelope(id, name, allocated) ==
  [id |-> id, name |-> name, allocated |-> allocated, spent |-> 0,
   accountId |-> "checking-1",
   incomeAllocation |-> NoNumber, incomeAllocationType |-> Undefined]

DefaultData ==
  UserData(<<"checking-1", "savings-1">>,
           <<DefaultEnvelope("1", "Groceries", 500),
             DefaultEnvelope("2", "Transportation", 300),
             DefaultEnvelope("3", "Entertainment", 200),
             DefaultEnvelope("4", "Utilities", 250)>>,
           <<>>, FALSE)

\* dataService.ts:71-118: the stored data, or the default data. The document
\* is read when the call returns.
loadUserData(userId) ==
  IF firestore[userId] # <<>> THEN firestore[userId][1] ELSE DefaultData

\* the listener of onAuthStateChanged called with a user, page.tsx:70-76:
\* setUser(user), then the load is awaited. The render that follows setUser
\* runs the save effect with the new user and the data still in memory. The
\* Sign In button is shown while nobody is signed in (page.tsx:343-360).
SignIn ==
  /\ user = NoUser
  /\ \E uid \in Users :
       /\ pending[uid] < MaxLoads
       /\ user' = uid
       /\ pending' = [pending EXCEPT ![uid] = @ + 1]
       /\ SaveEffect(uid, accounts, envelopes, transactions, setupCompleted, origin)
  /\ UNCHANGED <<accounts, envelopes, transactions, setupCompleted, now, randoms>>
  /\ UNCHANGED <<call, editingTransaction, paid, op, upload, origin>>
  /\ UNCHANGED valVars

\* the listener called with null, page.tsx:71, 92-99; handleSignOut is
\* page.tsx:235-243. The loads that have not returned are not cancelled.
SignOut ==
  /\ user # NoUser
  /\ user' = NoUser
  /\ accounts' = <<>>
  /\ envelopes' = <<>>
  /\ transactions' = <<>>
  /\ setupCompleted' = FALSE
  /\ origin' = NoUser
  /\ call' = NoCall
  /\ paid' = NoPaid
  /\ op' = NoOp
  /\ upload' = NoUpload
  /\ SaveEffect(NoUser, <<>>, <<>>, <<>>, FALSE, NoUser)
  /\ UNCHANGED <<now, randoms, editingTransaction, pending>>
  /\ UNCHANGED valVars

\* the listener resumes after await DataService.loadUserData(user.uid),
\* page.tsx:76-83: the data loaded for the user of that call are put into the
\* state, whoever is signed in by now; the save effect follows
LoadComplete ==
  /\ \E uid \in Users :
       /\ pending[uid] > 0
       /\ pending' = [pending EXCEPT ![uid] = @ - 1]
       /\ \E userData \in {loadUserData(uid)} :
            /\ accounts' = userData.accounts
            /\ envelopes' = userData.envelopes
            /\ transactions' = userData.transactions
            /\ setupCompleted' = userData.setupCompleted
            /\ origin' = uid
            /\ SaveEffect(user, userData.accounts, userData.envelopes,
                          userData.transactions, userData.setupCompleted, uid)
  /\ call' = NoCall
  /\ paid' = NoPaid
  /\ op' = NoOp
  /\ upload' = NoUpload
  /\ UNCHANGED <<user, now, randoms, editingTransaction>>
  /\ UNCHANGED valVars

\* loadUserData throws, page.tsx:86-90: only the wizard flag is set
LoadError ==
  /\ \E uid \in Users :
       /\ pending[uid] > 0
       /\ pending' = [pending EXCEPT ![uid] = @ - 1]
  /\ UNCHANGED <<accounts, envelopes, transactions, setupCompleted, now, randoms>>
  /\ UNCHANGED <<call, editingTransaction, paid, op, upload>>
  /\ UNCHANGED <<user, firestore, origin, saved>>
  /\ UNCHANGED valVars

\* the data are changed while a user is signed in
SignedIn(A) == user # NoUser /\ A

NextAuth ==
  \/ SignIn
  \/ SignOut
  \/ LoadComplete
  \/ LoadError
  \/ SignedIn(AccountAdd)
  \/ SignedIn(AccountDelete)

SpecAuth == Init /\ [][NextAuth]_vars

\* ------------------------------------- the validator applied on its own
RuleValueChoices == {-10, 0, 40, 60, 70}

TotalChoices == {90, 100}

RuleEnvelopes ==
  {Envelope(1, 1, "a1", Rule(kind, value)) :
     kind \in AllocationKinds, value \in RuleValueChoices}

RuleLists == UNION {[1..n -> RuleEnvelopes] : n \in 0..MaxRules}

InitValidate ==
  /\ InitApp
  /\ rules \in RuleLists
  /\ totalAmount \in {Num(t) : t \in TotalChoices}
  /\ validation = <<>>

Validate ==
  /\ validation = <<>>
  /\ validation' = <<validateIncomeAllocation(rules, totalAmount)>>
  /\ UNCHANGED <<rules, totalAmount>>
  /\ UNCHANGED appVars

SpecValidate == InitValidate /\ [][Validate]_vars

\* ------------------------------------------------------------ claims
\* The last run of handleTransactionsAdded, as the claims speak of it
Batch == call.newTransactions

Pushed(i) == call.steps[i].pushed

UnassignedIncome(t) == t.amount.n > 0 /\ t.amount.d > 0 /\ t.envelopeId = Undefined

\* positions in the envelope list of the envelopes of an account
EnvelopesOn(accountId) ==
  {j \in 1..Len(call.envelopes) : call.envelopes[j].accountId = accountId}

RECURSIVE AllocatedSum(_)
AllocatedSum(indices) ==
  IF indices = {} THEN 0
  ELSE LET j == CHOOSE k \in indices : TRUE
       IN  call.envelopes[j].allocated + AllocatedSum(indices \ {j})

CarriesRule(e) == e.incomeAllocation # NoNumber \/ e.incomeAllocationType # Undefined

CompleteRule(e) == e.incomeAllocation # NoNumber /\ e.incomeAllocationType # Undefined

\* the allocation transactions of step i that go to envelope e
SharesOf(i, e) == {k \in 1..Len(Pushed(i)) : Pushed(i)[k].envelopeId = e.id}

\* amount = num / den, for a positive den
IsQuotient(amount, num, den) == amount.d > 0 /\ amount.n * den = num * amount.d

\* the validator was run in step i and accepted / rejected what it was given
Accepted(i) ==
  /\ call.steps[i].validated # <<>>
  /\ validateIncomeAllocation(call.steps[i].validated, Batch[i].amount).isValid

Rejected(i) ==
  /\ call.steps[i].validated # <<>>
  /\ ~validateIncomeAllocation(call.steps[i].validated, Batch[i].amount).isValid

\* step i gave every envelope of `indices` with a positive allocated amount one
\* allocation of amount * allocated / sum, and nothing to any other envelope
ProportionalOver(i, indices) ==
  LET sum == AllocatedSum(indices)
      funded == {j \in indices : call.envelopes[j].allocated > 0}
  IN  /\ Len(Pushed(i)) = Cardinality(funded)
      /\ \A j \in funded :
           /\ Cardinality(SharesOf(i, call.envelopes[j])) = 1
           /\ \A k \in SharesOf(i, call.envelopes[j]) :
                IsQuotient(Pushed(i)[k].amount,
                           Batch[i].amount.n * call.envelopes[j].allocated,
                           Batch[i].amount.d * sum)

\* C1: allocation transactions are synthesized for a transaction of the batch
\* only if its amount is > 0 and it has no envelopeId; a batch without such a
\* transaction is appended as it is, whatever the envelopes are.
C1_OnlyUnassignedIncomeAllocates ==
  /\ \A i \in 1..Len(Batch) :
       ~UnassignedIncome(Batch[i]) => Pushed(i) = <<>>
  /\ (\A i \in 1..Len(Batch) : ~UnassignedIncome(Batch[i]))
       => call.allTransactions = Batch

\* an income that already has an envelope, on an account whose envelopes could
\* have been funded, went through alone
C1_Witness ==
  \E i \in 1..Len(Batch) :
    /\ Batch[i].amount.n > 0
    /\ Batch[i].envelopeId # Undefined
    /\ AllocatedSum(EnvelopesOn(Batch[i].accountId)) > 0
    /\ Pushed(i) = <<>>
    /\ transactions = call.prevTransactions \o Batch

\* C2: an unassigned income of amount A on account X, when no envelope of X
\* carries a rule and the allocated amounts of X's envelopes sum to S > 0, yields
\* exactly one allocation of A * allocated / S for each envelope of X with
\* allocated > 0, and none for envelopes of other accounts.
C2_ProportionalShares ==
  \A i \in 1..Len(Batch) :
    LET onAccount == EnvelopesOn(Batch[i].accountId)
    IN  (/\ UnassignedIncome(Batch[i])
         /\ \A j \in onAccount : ~CarriesRule(call.envelopes[j])
         /\ AllocatedSum(onAccount) > 0)
        => /\ ProportionalOver(i, onAccount)
           /\ \A k \in 1..Len(Pushed(i)) :
                \E j \in onAccount : Pushed(i)[k].envelopeId = call.envelopes[j].id

\* 15 over allocated 5 and 3 gives 9.375 and 5.625 (1500 over 500 and 300 gives
\* 937.50 and 562.50)
C2_Witness ==
  \E i \in 1..Len(Batch) :
    /\ UnassignedIncome(Batch[i])
    /\ Batch[i].amount = Num(15)
    /\ Len(call.envelopes) = 2
    /\ call.envelopes[1].allocated = 5 /\ call.envelopes[2].allocated = 3
    /\ EnvelopesOn(Batch[i].accountId) = {1, 2}
    /\ \A j \in 1..2 : ~CarriesRule(call.envelopes[j])
    /\ Len(Pushed(i)) = 2
    /\ Pushed(i)[1].amount = [n |-> 75, d |-> 8]
    /\ Pushed(i)[2].amount = [n |-> 45, d |-> 8]

\* what the custom-rule strategy gives envelope e out of amount
IsCustomAmount(amount, e, income) ==
  IF e.incomeAllocationType = "percentage"
    THEN IsQuotient(amount, income.n * e.incomeAllocation[1], income.d * 100)
    ELSE IF e.incomeAllocation[1] * income.d < income.n
           THEN amount = Num(e.incomeAllocation[1])
           ELSE amount = income

\* C3: when the validator was run over the rule-bearing envelopes of the account
\* and accepted them, every allocation of that income goes to an envelope with a
\* complete rule and is that envelope's custom-rule amount, no envelope gets two
\* allocations, and an envelope of the account without a rule gets nothing.
C3_ValidRulesCustomOnly ==
  \A i \in 1..Len(Batch) :
    Accepted(i) =>
      /\ \A k \in 1..Len(Pushed(i)) :
           \E j \in EnvelopesOn(Batch[i].accountId) :
             /\ Pushed(i)[k].envelopeId = call.envelopes[j].id
             /\ CompleteRule(call.envelopes[j])
             /\ IsCustomAmount(Pushed(i)[k].amount, call.envelopes[j], Batch[i].amount)
      /\ \A j \in EnvelopesOn(Batch[i].accountId) :
           /\ Cardinality(SharesOf(i, call.envelopes[j])) =< 1
           /\ ~CarriesRule(call.envelopes[j]) => SharesOf(i, call.envelopes[j]) = {}

\* accepted rules on an account that also has an envelope without a rule and
\* with a positive allocated amount: that envelope got nothing
C3_Witness ==
  \E i \in 1..Len(Batch) :
    /\ Accepted(i)
    /\ Pushed(i) # <<>>
    /\ \E j \in EnvelopesOn(Batch[i].accountId) :
         /\ ~CarriesRule(call.envelopes[j])
         /\ call.envelopes[j].allocated > 0
         /\ SharesOf(i, call.envelopes[j]) = {}

\* C4: when the validator rejected the rules it was given, the income is
\* distributed proportionally to allocated over all envelopes of the account,
\* those without a rule included, and the batch is still appended.
C4_InvalidRulesFallBack ==
  \A i \in 1..Len(Batch) :
    Rejected(i) =>
      /\ AllocatedSum(EnvelopesOn(Batch[i].accountId)) > 0
           => ProportionalOver(i, EnvelopesOn(Batch[i].accountId))
      /\ AllocatedSum(EnvelopesOn(Batch[i].accountId)) = 0 => Pushed(i) = <<>>
      /\ SubSeq(call.allTransactions, 1, Len(Batch)) = Batch
      /\ transactions = call.prevTransactions \o call.allTransactions

\* rejected rules, and an envelope without a rule received its proportional share
C4_Witness ==
  \E i \in 1..Len(Batch) :
    /\ Rejected(i)
    /\ \E j \in EnvelopesOn(Batch[i].accountId) :
         /\ ~CarriesRule(call.envelopes[j])
         /\ SharesOf(i, call.envelopes[j]) # {}

\* C5: for an unassigned income, every envelope of its account with both an
\* allocation value and a kind counts as rule-bearing, a value of 0 included: if
\* there is one, the validator is run over all of them, and proportional
\* distribution is used only when the validator rejects them.
C5_ZeroValuedRuleIsRuleBearing ==
  \A i \in 1..Len(Batch) :
    LET complete == {j \in EnvelopesOn(Batch[i].accountId) :
                       CompleteRule(call.envelopes[j])}
    IN  (UnassignedIncome(Batch[i]) /\ complete # {})
        => /\ {call.steps[i].validated[k].id : k \in 1..Len(call.steps[i].validated)}
                = {call.envelopes[j].id : j \in complete}
           /\ call.steps[i].strategy # "custom" => Rejected(i)

\* C9: all transaction identifiers in the ledger are pairwise distinct.
C9_IdentifiersDistinct ==
  \A i, j \in 1..Len(transactions) :
    i # j => transactions[i].id # transactions[j].id

\* C10: a run of handleTransactionsAdded keeps the ledger it found, appends each
\* input transaction once, in order, followed only by synthesized allocations,
\* and gives an income without a distribution basis no allocation.
NoBasis(i) ==
  \/ EnvelopesOn(Batch[i].accountId) = {}
  \/ AllocatedSum(EnvelopesOn(Batch[i].accountId)) = 0 /\ ~Accepted(i)

Synthesized(t) == t.id.prefix = "allocation" /\ t.id.suffix # <<>>

C10_EveryInputAppendedOnce ==
  /\ call # NoCall => transactions = call.prevTransactions \o call.allTransactions
  /\ Len(call.allTransactions) >= Len(Batch)
  /\ SubSeq(call.allTransactions, 1, Len(Batch)) = Batch
  /\ \A k \in (Len(Batch) + 1)..Len(call.allTransactions) :
       Synthesized(call.allTransactions[k])
  /\ \A i \in 1..Len(Batch) : ~Synthesized(Batch[i])
  /\ \A i \in 1..Len(Batch) : NoBasis(i) => Pushed(i) = <<>>

\* an income on an account whose envelopes have nothing allocated was appended
\* to a ledger that already held transactions, without any allocation
C10_Witness ==
  /\ call.prevTransactions # <<>>
  /\ \E i \in 1..Len(Batch) :
       /\ UnassignedIncome(Batch[i])
       /\ EnvelopesOn(Batch[i].accountId) # {}
       /\ AllocatedSum(EnvelopesOn(Batch[i].accountId)) = 0
  /\ transactions = call.prevTransactions \o Batch

Validated == validation # <<>>

RulesOfKind(kind) == {i \in 1..Len(rules) : rules[i].incomeAllocationType = kind}

RECURSIVE SumOver(_, _)
SumOver(list, indices) ==
  IF indices = {} THEN 0
  ELSE LET i == CHOOSE j \in indices : TRUE
       IN  list[i].incomeAllocation[1] + SumOver(list, indices \ {i})

\* C6: whenever the rules given to validateIncomeAllocation contain at least one
\* fixed rule and at least one percentage rule, the result is invalid, whatever
\* the rule values and the total amount are.
C6_MixedKindsInvalid ==
  (Validated /\ RulesOfKind("fixed") # {} /\ RulesOfKind("percentage") # {})
    => ~validation[1].isValid

\* a mixed rule list whose fixed rules sum to the total and whose percentages
\* are in range: only the conflict check can reject it
C6_Witness ==
  /\ Validated
  /\ RulesOfKind("fixed") # {} /\ RulesOfKind("percentage") # {}
  /\ Num(SumOver(rules, RulesOfKind("fixed"))) = totalAmount
  /\ SumOver(rules, RulesOfKind("percentage")) \in 0..100
  /\ ~validation[1].isValid

\* C7: when all rules are fixed and there is at least one, the result is valid
\* exactly when the rule values sum to the total amount.
C7_FixedValidIffSumEqualsTotal ==
  (Validated /\ rules # <<>> /\ RulesOfKind("fixed") = DOMAIN rules)
    => (validation[1].isValid <=>
          Num(SumOver(rules, DOMAIN rules)) = totalAmount)

\* fixed rules 60 and 40 against a total of 100 are valid
C7_Witness ==
  /\ Validated
  /\ Len(rules) = 2
  /\ RulesOfKind("fixed") = DOMAIN rules
  /\ rules[1].incomeAllocation = <<60>> /\ rules[2].incomeAllocation = <<40>>
  /\ totalAmount = Num(100)
  /\ validation[1].isValid

\* C8: when all rules are percentage rules, the result is valid exactly when the
\* percentages sum to a value in [0, 100]; an empty rule list is valid.
C8_PercentageValidIffInRange ==
  (Validated /\ RulesOfKind("percentage") = DOMAIN rules)
    => (validation[1].isValid <=>
          (SumOver(rules, DOMAIN rules) >= 0 /\ SumOver(rules, DOMAIN rules) =< 100))

\* percentages 60 and 40 sum to exactly 100 and are valid
C8_Witness ==
  /\ Validated
  /\ Len(rules) = 2
  /\ RulesOfKind("percentage") = DOMAIN rules
  /\ SumOver(rules, DOMAIN rules) = 100
  /\ validation[1].isValid

\* ---------------------------------------------- claims about distributions
RatAdd(a, b) ==
  IF IsNaN(a) \/ IsNaN(b) THEN NaN ELSE Rat(a.n * b.d + b.n * a.d, a.d * b.d)

\* the sum of the amount fields of a sequence of records
RECURSIVE RatSum(_)
RatSum(entries) ==
  IF entries = <<>> THEN Num(0) ELSE RatAdd(Head(entries).amount, RatSum(Tail(entries)))

\* the envelopes at `indices` have non-negative allocated amounts of positive sum
PositiveBasis(indices) ==
  /\ \A j \in indices : call.envelopes[j].allocated >= 0
  /\ AllocatedSum(indices) > 0

PaidProportionally == paid.distributionMethod = "proportional"

\* the allocation transactions GetPaid.handleSubmit handed over
PaidAllocations == Tail(paid.transactions)

\* C11: for a positive amount A and envelopes with non-negative allocated
\* amounts of positive sum, the amounts of the proportional distribution sum to
\* A: the entries computed by GetPaid.calculateDistribution, the allocation
\* transactions GetPaid makes of them, and the allocations the income handler
\* synthesizes for an income it distributes proportionally.
C11_ProportionalSumsToAmount ==
  /\ (PaidProportionally /\ PositiveBasis(EnvelopesOn(paid.selectedAccountId)))
       => /\ RatSum(paid.distribution) = paid.amount
          /\ RatSum(PaidAllocations) = paid.amount
  /\ \A i \in 1..Len(Batch) :
       (/\ UnassignedIncome(Batch[i])
        /\ call.steps[i].strategy \in {"proportional", "fallback"}
        /\ PositiveBasis(EnvelopesOn(Batch[i].accountId)))
       => RatSum(Pushed(i)) = Batch[i].amount

\* a paycheck of 15 over allocated 5 and 3: 75/8 + 45/8 = 15, in GetPaid and in
\* the income handler
C11_Witness ==
  /\ PaidProportionally
  /\ paid.amount = Num(15)
  /\ Len(paid.distribution) = 2
  /\ paid.distribution[1].amount = [n |-> 75, d |-> 8]
  /\ paid.distribution[2].amount = [n |-> 45, d |-> 8]
  /\ Len(Pushed(1)) = 2
  /\ Pushed(1)[1].amount = [n |-> 75, d |-> 8]
  /\ Pushed(1)[2].amount = [n |-> 45, d |-> 8]

\* a non-empty envelope set whose allocated amounts sum to zero
ZeroBasis(indices) == indices # {} /\ AllocatedSum(indices) = 0

\* C12: proportional distribution over a non-empty envelope set whose allocated
\* amounts sum to zero yields an empty mapping and no allocation transaction, in
\* GetPaid.calculateDistribution and in the income handler.
C12_ZeroSumYieldsEmptyMapping ==
  /\ (PaidProportionally /\ ZeroBasis(EnvelopesOn(paid.selectedAccountId)))
       => (paid.distribution = <<>> /\ PaidAllocations = <<>>)
  /\ \A i \in 1..Len(Batch) :
       (/\ UnassignedIncome(Batch[i])
        /\ call.steps[i].strategy \in {"proportional", "fallback"}
        /\ ZeroBasis(EnvelopesOn(Batch[i].accountId)))
       => Pushed(i) = <<>>

PaidEqually == paid.distributionMethod = "equal"

\* C13: under the equal strategy of GetPaid.calculateDistribution each of the
\* n > 0 envelopes of the selected account has one entry of amount / n and the
\* entries sum to the amount; with no envelope on the account the mapping is
\* empty.
C13_EqualShares ==
  PaidEqually =>
    LET onAccount == EnvelopesOn(paid.selectedAccountId)
        n == Cardinality(onAccount)
    IN  /\ n = 0 => paid.distribution = <<>>
        /\ n > 0 =>
             /\ Len(paid.distribution) = n
             /\ \A j \in onAccount :
                  \E k \in 1..n :
                    /\ paid.distribution[k].envelopeId = call.envelopes[j].id
                    /\ IsQuotient(paid.distribution[k].amount,
                                  paid.amount.n, paid.amount.d * n)
             /\ RatSum(paid.distribution) = paid.amount

\* 15 split equally over two envelopes with different allocated amounts: 15/2 each
C13_Witness ==
  /\ PaidEqually
  /\ paid.amount = Num(15)
  /\ Len(call.envelopes) = 2
  /\ EnvelopesOn(paid.selectedAccountId) = {1, 2}
  /\ call.envelopes[1].allocated # call.envelopes[2].allocated
  /\ Len(paid.distribution) = 2
  /\ \A k \in 1..2 : paid.distribution[k].amount = [n |-> 15, d |-> 2]

\* ---------------------------------------------- claims about the ledger
Edited == op.name = "edit"

\* positions of the ledger before the edit that hold the id of the edited transaction
HeldBefore == {i \in 1..Len(op.prevTransactions) :
                 op.prevTransactions[i].id = op.argument[1].id}

\* C14: saving an edit of a transaction whose id is in the ledger replaces
\* exactly one ledger entry, at the same position and under the same id, and
\* leaves the length of the ledger and every other entry unchanged; an edit
\* whose id is not in the ledger changes nothing.
C14_EditReplacesOneEntry ==
  Edited =>
    /\ Len(transactions) = Len(op.prevTransactions)
    /\ HeldBefore = {} => transactions = op.prevTransactions
    /\ HeldBefore # {} =>
         \E p \in HeldBefore :
           /\ transactions[p] = op.argument[1]
           /\ \A q \in 1..Len(transactions) :
                q # p => transactions[q] = op.prevTransactions[q]

\* a step that appends to, edits or deletes from the ledger
LedgerOperation == transactions' # transactions \/ call' # call \/ op' # op

ExpenseOn(t, e) == t.amount.n < 0 /\ t.envelopeId = e.id

RECURSIVE SpentIn(_, _)
SpentIn(ledger, e) ==
  IF ledger = <<>> THEN Num(0)
  ELSE RatAdd(IF ExpenseOn(Head(ledger), e)
                THEN RatMul(Num(-1), Head(ledger).amount) ELSE Num(0),
              SpentIn(Tail(ledger), e))

\* the envelopes the edited transaction was or is assigned to
AffectedByEdit(e) ==
  \/ op.argument[1].envelopeId = e.id
  \/ \E i \in HeldBefore : op.prevTransactions[i].envelopeId = e.id

\* C16: editing a transaction updates envelope spending: after the edit the
\* spent amount of every envelope the transaction was or is assigned to is the
\* total of the expenses the ledger assigns to it.
C16_EditUpdatesEnvelopeSpending ==
  Edited =>
    \A j \in 1..Len(envelopes) :
      AffectedByEdit(envelopes[j])
        => Num(envelopes[j].spent) = SpentIn(transactions, envelopes[j])

\* ---------------------------------------------- claims about allocations
IsAllocation(t) == t.id.prefix = "allocation"

\* C17: for a paycheck recorded through GetPaid.handleSubmit the ledger gains
\* exactly the transactions GetPaid handed over, the paycheck and the
\* allocations of the distribution chosen there: the income handler synthesizes
\* no further allocation for it, and the allocations added never total more than
\* the paycheck.
C17_PaycheckGainsNoFurtherAllocations ==
  paid # NoPaid =>
    /\ call.allTransactions = paid.transactions
    /\ transactions = call.prevTransactions \o paid.transactions
    /\ ~RatGt(RatSum(SelectSeq(call.allTransactions, IsAllocation)), paid.amount)

FixedRulesPaid ==
  \E i \in 1..Len(Batch) :
    /\ call.steps[i].strategy = "custom"
    /\ Batch[i].amount = Num(15)
    /\ Len(call.steps[i].validated) = 2
    /\ \A r \in 1..2 : call.steps[i].validated[r].incomeAllocationType = "fixed"
    /\ Len(Pushed(i)) = 2
    /\ Pushed(i)[1].amount = Num(5)
    /\ Pushed(i)[2].amount = Num(10)

Positive(amount) == amount.n > 0 /\ amount.d > 0

AllocationFieldsFrom(t, source) ==
  \E j \in 1..Len(call.envelopes) :
    /\ t.envelopeId = call.envelopes[j].id
    /\ t.description = "Income allocation - " \o call.envelopes[j].name
    /\ t.date = source.date
    /\ t.accountId = source.accountId

\* the allocations the income handler synthesizes
HandlerAllocationFields ==
  \A i \in 1..Len(Batch) :
    \A k \in 1..Len(Pushed(i)) : AllocationFieldsFrom(Pushed(i)[k], Batch[i])

\* the allocations GetPaid.handleSubmit makes for its paycheck
PaidAllocationFields ==
  paid # NoPaid =>
    \A k \in 1..Len(PaidAllocations) :
      AllocationFieldsFrom(PaidAllocations[k], paid.transactions[1])

\* C20: each allocation transaction, of the income handler and of
\* GetPaid.handleSubmit, has the id of the receiving envelope as envelopeId,
\* "Income allocation - " followed by that envelope's name as description, and
\* the date and the accountId of the income transaction it was made for.
C20_AllocationFields == HandlerAllocationFields /\ PaidAllocationFields

\* ---------------------------------------- claims about ledger updates
\* the allocations synthesized in the steps of a run, in step order
RECURSIVE AllPushed(_)
AllPushed(steps) ==
  IF steps = <<>> THEN <<>> ELSE Head(steps).pushed \o AllPushed(Tail(steps))

\* C21: a call of handleTransactionsAdded updates the ledger once: every step
\* that changes the ledger adds the whole batch of one call, the input
\* transactions together with every allocation synthesized for them, so no
\* ledger state holds an income of a batch without its allocations or an
\* allocation without its income.
C21_SingleLedgerUpdate ==
  [][transactions' # transactions =>
       /\ call'.prevTransactions = transactions
       /\ transactions' =
            transactions \o call'.newTransactions \o AllPushed(call'.steps)]_vars

\* an income and its two allocations were added in one step to a ledger that
\* already held transactions
C21_Witness ==
  /\ call.prevTransactions # <<>>
  /\ \E i \in 1..Len(Batch) : UnassignedIncome(Batch[i]) /\ Len(Pushed(i)) = 2
  /\ transactions = call.prevTransactions \o Batch \o AllPushed(call.steps)

\* how many allocations the steps before step i synthesized
RECURSIVE PushedBefore(_)
PushedBefore(i) == IF i =< 1 THEN 0 ELSE PushedBefore(i - 1) + Len(Pushed(i - 1))

\* C22: an append keeps every transaction of the ledger at its position and
\* adds the new ones at the end: the input transactions in input order, then
\* the allocations in the order of their source incomes; the recent
\* transactions view lists the last five ledger entries, the newest first.
C22_AppendOrderAndRecentView ==
  /\ call # NoCall =>
       LET offset == Len(call.prevTransactions)
       IN  /\ \A p \in 1..offset : transactions[p] = call.prevTransactions[p]
           /\ \A i \in 1..Len(Batch) :
                /\ transactions[offset + i] = Batch[i]
                /\ \A k \in 1..Len(Pushed(i)) :
                     transactions[offset + Len(Batch) + PushedBefore(i) + k]
                       = Pushed(i)[k]
           /\ Len(transactions) = offset + Len(Batch) + PushedBefore(Len(Batch) + 1)
  /\ LET recent == RecentTransactions(transactions)
         n == Len(transactions)
     IN  /\ Len(recent) = IF n < 5 THEN n ELSE 5
         /\ \A k \in 1..Len(recent) : recent[k] = transactions[n - k + 1]

\* two imported incomes with allocations each were appended to a ledger that
\* held a transaction; the ledger has more than five entries and the view
\* starts with the last of them
C22_Witness ==
  /\ call.prevTransactions # <<>>
  /\ Len(Batch) = 2
  /\ Pushed(1) # <<>> /\ Pushed(2) # <<>>
  /\ Len(transactions) > 5
  /\ Len(RecentTransactions(transactions)) = 5
  /\ RecentTransactions(transactions)[1] = Pushed(2)[Len(Pushed(2))]

Deleted == op.name = "delete"

\* positions of the ledger before the delete that hold the deleted id
RemovedBefore == {i \in 1..Len(op.prevTransactions) :
                    op.prevTransactions[i].id = op.argument[1]}

Without(list, p) == SubSeq(list, 1, p - 1) \o SubSeq(list, p + 1, Len(list))

\* C23: handleTransactionDelete(id) removes the transaction with that id and
\* nothing else: the ledger afterwards is the ledger before without that one
\* entry, every other transaction unchanged and in the same order, the
\* allocations derived from a deleted income included; deleting an id that is
\* not in the ledger changes nothing.
C23_DeleteRemovesOneEntry ==
  Deleted =>
    /\ RemovedBefore = {} => transactions = op.prevTransactions
    /\ RemovedBefore # {} =>
         \E p \in RemovedBefore : transactions = Without(op.prevTransactions, p)

\* ------------------------------------ claims about rules and accounts
\* the rules the handler validated in step i are all of one kind
ValidatedKind(i, kind) ==
  \A r \in 1..Len(call.steps[i].validated) :
    call.steps[i].validated[r].incomeAllocationType = kind

RECURSIVE ValidatedSum(_)
ValidatedSum(ruled) ==
  IF ruled = <<>> THEN 0 ELSE Head(ruled).incomeAllocation[1] + ValidatedSum(Tail(ruled))

\* the allocations of an income distributed by custom rules do not exceed it
CustomWithinIncome ==
  \A i \in 1..Len(Batch) :
    call.steps[i].strategy = "custom" => ~RatGt(RatSum(Pushed(i)), Batch[i].amount)

\* C24: whenever the income processor uses the custom-rule strategy, the
\* allocations synthesized for the income sum to at most the income, for every
\* rule set the validator accepts and every rule value the forms can store:
\* exactly the income for fixed rules, income * P / 100 for percentage rules
\* summing to P.
C24_CustomAllocationsWithinIncome ==
  \A i \in 1..Len(Batch) :
    call.steps[i].strategy = "custom" =>
      /\ CustomWithinIncome
      /\ ValidatedKind(i, "fixed") => RatSum(Pushed(i)) = Batch[i].amount
      /\ ValidatedKind(i, "percentage") =>
           RatSum(Pushed(i)) =
             RatMul(Batch[i].amount, Rat(ValidatedSum(call.steps[i].validated), 100))

\* the envelope that allocation t references exists when the batch is handled
\* and belongs to the account t is booked on
OnAccountOfEnvelope(t) ==
  \E j \in 1..Len(call.envelopes) :
    /\ call.envelopes[j].id = t.envelopeId
    /\ call.envelopes[j].accountId = t.accountId

\* the allocations the income handler synthesized in the last run
HandlerAllocationsOnAccount ==
  \A i \in 1..Len(Batch) : \A k \in 1..Len(Pushed(i)) : OnAccountOfEnvelope(Pushed(i)[k])

Imported == upload # NoUpload

\* C29: every transaction created by a file import carries the accountId of
\* the account selected in the import form.
C29_ImportOnSelectedAccount ==
  Imported => \A i \in 1..Len(Batch) : Batch[i].accountId = upload.selectedAccountId

\* ------------------------------------------- claims about accounts
\* C26: after every operation (account add and delete, set-up, transaction
\* entry) the accountId of every envelope and of every transaction is the id
\* of an account of the account list.
C26_AccountIdsReferToAccounts ==
  /\ \A j \in 1..Len(envelopes) : envelopes[j].accountId \in AccountIdsOf(accounts)
  /\ \A i \in 1..Len(transactions) : transactions[i].accountId \in AccountIdsOf(accounts)

\* -------------------------------------------- claims about envelopes
HasAllocationValue(envelope) == envelope.incomeAllocation # NoNumber

HasAllocationKind(envelope) == envelope.incomeAllocationType # Undefined

\* C30: after set-up completion and after every envelope edit, each envelope
\* has both an income allocation value and an allocation kind, or neither.
C30_AllocationValueAndKindTogether ==
  \A j \in 1..Len(envelopes) :
    HasAllocationValue(envelopes[j]) <=> HasAllocationKind(envelopes[j])

\* two envelopes that went through the edit form (only it stores an allocated
\* amount of 7): one saved with a value of 0 and its kind, one saved with the
\* value field empty
C30_Witness ==
  /\ setupCompleted
  /\ \E j, k \in 1..Len(envelopes) :
       /\ envelopes[j].allocated = 7
       /\ envelopes[j].incomeAllocation = <<0>>
       /\ envelopes[j].incomeAllocationType = "fixed"
       /\ envelopes[k].allocated = 7
       /\ ~HasAllocationValue(envelopes[k])
       /\ ~HasAllocationKind(envelopes[k])

\* ------------------------------------------------ claims about the session
\* C27: under every interleaving of sign-in, sign-out and completion of
\* loads, the data the save effect writes under a user id were loaded for
\* that user or made in memory since; data loaded for one user are never
\* saved under the id of another.
C27_SavedUnderOwnUser ==
  saved # NoSave => saved.origin \in {NoUser, saved.uid}

\* C28: whenever no user is authenticated and the listener has handled the
\* sign-out, accounts, envelopes and transactions are empty and
\* setupCompleted is false, also after a load started before the sign-out
\* has returned.
C28_SignedOutDataEmpty ==
  user = NoUser =>
    /\ accounts = <<>>
    /\ envelopes = <<>>
    /\ transactions = <<>>
    /\ ~setupCompleted

====
